---- MODULE Spec2Model ----
(***************************************************************************)
(* Piece alignment of the sector builder                                   *)
(* (filecoin-proofs/src/api/sector_builder/pieces.rs).                     *)
(*                                                                         *)
(* UnpaddedBytesAmount and UnpaddedByteIndex wrap a u64.  TLC's integers   *)
(* are 32 bits wide, so a u64 is kept here as NumLimbs limbs of 16 bits,   *)
(* least significant first; the fifth limb holds what a u64 cannot (the    *)
(* carry of an overflowing operation, or a mathematical sum of two u64).   *)
(***************************************************************************)
EXTENDS Naturals, Integers, Sequences, FiniteSets, TLC

VARIABLES
    overflow_checks,  \* TRUE: the build panics on u64 overflow; FALSE: it wraps
    call,             \* a get_piece_alignment call: its arguments, then its outcome
    pieces,           \* the caller's Vec<PieceMetadata>
    start_call,       \* the last get_piece_start_byte call and its result
    aligned,          \* a get_aligned_source call: its result, its reader, what was read
    sector,           \* the bytes the caller has written for the pieces
    sources           \* the source bytes of each piece, in the order of pieces

vars == <<overflow_checks, call, pieces, start_call, aligned, sector, sources>>

----------------------------------------------------------------------------
(* u64 arithmetic on limbs *)

LimbBase == 65536
NumLimbs == 5

\* The limbs of a number below 2^31.
Wide(n) == <<n % LimbBase, n \div LimbBase, 0, 0, 0>>

Zero == Wide(0)

\* A number that fits the u64 of the source.
IsU64(a) == a[NumLimbs] = 0

\* The value of limbs that hold a number below 2^31.
IsSmall(a) == a[2] < 32768 /\ a[3] = 0 /\ a[4] = 0 /\ a[5] = 0
ToNat(a) == a[1] + LimbBase * a[2]

RECURSIVE AddLimbs(_, _, _, _)
AddLimbs(a, b, i, carry) ==
    IF i > NumLimbs THEN <<>>
    ELSE LET s == a[i] + b[i] + carry
         IN  <<s % LimbBase>> \o AddLimbs(a, b, i + 1, s \div LimbBase)

\* a + b, exact.
WAdd(a, b) == AddLimbs(a, b, 1, 0)

RECURSIVE SubLimbs(_, _, _, _)
SubLimbs(a, b, i, borrow) ==
    IF i > NumLimbs THEN <<>>
    ELSE LET d == a[i] - b[i] - borrow
         IN  <<(d + LimbBase) % LimbBase>>
                 \o SubLimbs(a, b, i + 1, IF d < 0 THEN 1 ELSE 0)

\* a - b, exact, for a >= b.
WSub(a, b) == SubLimbs(a, b, 1, 0)

RECURSIVE LtLimbs(_, _, _)
LtLimbs(a, b, i) ==
    IF i = 0 THEN FALSE
    ELSE IF a[i] # b[i] THEN a[i] < b[i]
    ELSE LtLimbs(a, b, i - 1)

\* a < b
WLt(a, b) == LtLimbs(a, b, NumLimbs)

WLe(a, b) == ~ WLt(b, a)

WMax(a, b) == IF WLt(a, b) THEN b ELSE a

\* Bit i (0 the least significant) of a.
Bit(a, i) == (a[(i \div 16) + 1] \div (2 ^ (i % 16))) % 2

\* Long division, one bit of the dividend a step, from bit i down to bit
\* low: r is the remainder of the bits above bit i.
RECURSIVE ModBits(_, _, _, _, _)
ModBits(a, m, i, low, r) ==
    IF i < low THEN r
    ELSE LET shifted == WAdd(WAdd(r, r), Wide(Bit(a, i)))
         IN  IF WLt(shifted, m)
             THEN ModBits(a, m, i - 1, low, shifted)
             ELSE ModBits(a, m, i - 1, low, WSub(shifted, m))

\* The same, limb j of the dividend at a time, from the top limb.
RECURSIVE ModLimbs(_, _, _, _)
ModLimbs(a, m, j, r) ==
    IF j = 0 THEN r
    ELSE ModLimbs(a, m, j - 1, ModBits(a, m, (16 * j) - 1, 16 * (j - 1), r))

\* a % m for m > 0.
WMod(a, m) ==
    IF IsSmall(a) /\ IsSmall(m) THEN Wide(ToNat(a) % ToNat(m))
    ELSE ModLimbs(a, m, NumLimbs, Zero)

\* What a u64 keeps of an exact result: the low 64 bits.
Wrap(a) == [a EXCEPT ![NumLimbs] = 0]

Double(x) == WAdd(x, x)

\* a * n for a factor n <= 2^15, exact.
RECURSIVE MulLimbs(_, _, _, _)
MulLimbs(a, n, i, carry) ==
    IF i > NumLimbs THEN <<>>
    ELSE LET s == (a[i] * n) + carry
         IN  <<s % LimbBase>> \o MulLimbs(a, n, i + 1, s \div LimbBase)

\* a * 2^(16 * j): the limbs moved up by j places.
ShiftLimbs(a, j) == [i \in 1 .. NumLimbs |-> IF i > j THEN a[i - j] ELSE 0]

\* x * 2^k, exact.
TimesPow2(x, k) == ShiftLimbs(MulLimbs(x, 2 ^ (k % 16), 1, 0), k \div 16)

----------------------------------------------------------------------------
(* get_piece_alignment *)

\* The constant without its "- 1".
minimum_piece_bytes_128 == Wide(4 * 32)

minimum_piece_bytes == Wide((4 * 32) - 1)

adjusted_piece_bytes(piece_bytes) == WMax(minimum_piece_bytes, piece_bytes)

\* while piece_bytes_needed < adjusted_piece_bytes { piece_bytes_needed *= 2; }
\* The multiplication overflows a u64 when the product needs the fifth limb:
\* with overflow checks the call panics there, without them the product wraps.
\* The loop's only state is piece_bytes_needed, so an iteration that leaves it
\* unchanged repeats forever.
\* The loop with "<=" for "<".
RECURSIVE while_loop_le(_, _)
while_loop_le(piece_bytes_needed, adjusted) ==
    IF WLt(adjusted, piece_bytes_needed)
    THEN [outcome |-> "exit", piece_bytes_needed |-> piece_bytes_needed]
    ELSE LET product == Double(piece_bytes_needed)
         IN  IF ~ IsU64(product) /\ overflow_checks
             THEN [outcome |-> "panic", piece_bytes_needed |-> piece_bytes_needed]
             ELSE IF Wrap(product) = piece_bytes_needed
             THEN [outcome |-> "hang", piece_bytes_needed |-> piece_bytes_needed]
             ELSE while_loop_le(Wrap(product), adjusted)

RECURSIVE while_loop(_, _)
while_loop(piece_bytes_needed, adjusted) ==
    IF ~ WLt(piece_bytes_needed, adjusted)
    THEN [outcome |-> "exit", piece_bytes_needed |-> piece_bytes_needed]
    ELSE LET product == Double(piece_bytes_needed)
         IN  IF ~ IsU64(product) /\ overflow_checks
             THEN [outcome |-> "panic", piece_bytes_needed |-> piece_bytes_needed]
             ELSE IF Wrap(product) = piece_bytes_needed
             THEN [outcome |-> "hang", piece_bytes_needed |-> piece_bytes_needed]
             ELSE while_loop(Wrap(product), adjusted)

encroaching(written_bytes, piece_bytes_needed) ==
    WMod(written_bytes, piece_bytes_needed)

\* The padding taken to be the bytes that encroach, not what is left of the
\* quantum after them.
left_bytes_encroaching(written_bytes, piece_bytes_needed) ==
    encroaching(written_bytes, piece_bytes_needed)

left_bytes(written_bytes, piece_bytes_needed) ==
    IF WLt(Zero, encroaching(written_bytes, piece_bytes_needed))
    THEN WSub(piece_bytes_needed, encroaching(written_bytes, piece_bytes_needed))
    ELSE Zero

\* The subtraction from the adjusted piece_bytes, not the raw one.
right_bytes_adjusted(piece_bytes_needed, piece_bytes) ==
    [underflow |-> FALSE,
     value |-> WSub(piece_bytes_needed, adjusted_piece_bytes(piece_bytes))]

\* piece_bytes_needed - u64::from(piece_bytes): a u64 subtraction, which
\* underflows when piece_bytes is the larger.
right_bytes(piece_bytes_needed, piece_bytes) ==
    IF WLt(piece_bytes_needed, piece_bytes)
    THEN [underflow |-> TRUE,
          value |-> WSub(WAdd(piece_bytes_needed, TimesPow2(Wide(1), 64)), piece_bytes)]
    ELSE [underflow |-> FALSE, value |-> WSub(piece_bytes_needed, piece_bytes)]

get_piece_alignment(written_bytes, piece_bytes) ==
    LET loop == while_loop(minimum_piece_bytes, adjusted_piece_bytes(piece_bytes))
        needed == loop.piece_bytes_needed
        right == right_bytes(needed, piece_bytes)
    IN  IF loop.outcome # "exit"
        THEN [outcome |-> loop.outcome, left_bytes |-> Zero, right_bytes |-> Zero]
        ELSE IF right.underflow /\ overflow_checks
        THEN [outcome |-> "panic", left_bytes |-> Zero, right_bytes |-> Zero]
        ELSE [outcome |-> "returned",
              left_bytes |-> left_bytes(written_bytes, needed),
              right_bytes |-> right.value]

----------------------------------------------------------------------------
(* sum_piece_bytes_with_alignment, get_piece_start_byte *)

\* A computed amount, or the way the computation ended without one.
Bytes(v) == [outcome |-> "returned", value |-> v]
Failed(outcome) == [outcome |-> outcome, value |-> Zero]

PieceMetadata(piece_key, num_bytes) ==
    [piece_key |-> piece_key, num_bytes |-> num_bytes]

\* UnpaddedBytesAmount + UnpaddedBytesAmount.
UnpaddedAdd(a, b) == WAdd(a, b)

\* The closure of the fold: |acc, p| acc + left_bytes + p.num_bytes + right_bytes
fold_step(acc, p) ==
    LET alignment == get_piece_alignment(acc, p.num_bytes)
    IN  IF alignment.outcome # "returned" THEN Failed(alignment.outcome)
        ELSE Bytes(UnpaddedAdd(UnpaddedAdd(UnpaddedAdd(acc, alignment.left_bytes),
                                           p.num_bytes),
                               alignment.right_bytes))

\* The fold taken from the back.
RECURSIVE fold_from_back(_, _)
fold_from_back(s, acc) ==
    IF s = <<>> \/ acc.outcome # "returned" THEN acc
    ELSE fold_from_back(SubSeq(s, 1, Len(s) - 1), fold_step(acc.value, s[Len(s)]))

\* Iterator::fold, front to back; a panic or a hang of the closure ends it.
RECURSIVE fold(_, _)
fold(s, acc) ==
    IF s = <<>> \/ acc.outcome # "returned" THEN acc
    ELSE fold(Tail(s), fold_step(acc.value, Head(s)))

sum_piece_bytes_with_alignment(ps) == fold(ps, Bytes(Zero))

\* take_while that also takes the entry it stops at.
RECURSIVE take_while_inclusive(_, _)
take_while_inclusive(s, piece_key) ==
    IF s = <<>> THEN <<>>
    ELSE IF Head(s).piece_key = piece_key THEN <<Head(s)>>
    ELSE <<Head(s)>> \o take_while_inclusive(Tail(s), piece_key)

\* Iterator::filter in the place of take_while.
RECURSIVE filter(_, _)
filter(s, piece_key) ==
    IF s = <<>> THEN <<>>
    ELSE IF Head(s).piece_key = piece_key THEN filter(Tail(s), piece_key)
    ELSE <<Head(s)>> \o filter(Tail(s), piece_key)

\* Iterator::take_while(|p| p.piece_key != piece_key)
RECURSIVE take_while(_, _)
take_while(s, piece_key) ==
    IF s = <<>> \/ Head(s).piece_key = piece_key THEN <<>>
    ELSE <<Head(s)>> \o take_while(Tail(s), piece_key)

get_piece_start_byte(ps, piece) ==
    LET last_byte == sum_piece_bytes_with_alignment(take_while(ps, piece.piece_key))
        alignment == get_piece_alignment(last_byte.value, piece.num_bytes)
    IN  IF last_byte.outcome # "returned" THEN last_byte
        ELSE IF alignment.outcome # "returned" THEN Failed(alignment.outcome)
        ELSE Bytes(UnpaddedAdd(last_byte.value, alignment.left_bytes))

----------------------------------------------------------------------------
(* with_alignment, get_aligned_source *)

Min(a, b) == IF a < b THEN a ELSE b

Zeros(n) == [i \in 1 .. n |-> 0]

\* with_alignment with the two paddings exchanged.
with_alignment_swapped(source, piece_alignment) ==
    [left_padding |-> ToNat(piece_alignment.right_bytes),
     source |-> source,
     right_padding |-> ToNat(piece_alignment.left_bytes),
     inner_done_first |-> FALSE,
     outer_done_first |-> FALSE]

\* left_padding.chain(source).chain(right_padding): the bytes each of the
\* three readers has left, and the done_first flag of each of the two Chains.
\* A padding is a Cursor over zeros, so only their number is kept.
with_alignment(source, piece_alignment) ==
    [left_padding |-> ToNat(piece_alignment.left_bytes),
     source |-> source,
     right_padding |-> ToNat(piece_alignment.right_bytes),
     inner_done_first |-> FALSE,
     outer_done_first |-> FALSE]

\* Chain::read of left_padding.chain(source), for a buffer of len > 0 bytes:
\* the first reader until it returns 0, from then on the second.
inner_read(reader, len) ==
    IF ~ reader.inner_done_first /\ reader.left_padding > 0
    THEN [bytes |-> Zeros(Min(len, reader.left_padding)),
          reader |-> [reader EXCEPT !.left_padding = @ - Min(len, @)]]
    ELSE [bytes |-> SubSeq(reader.source, 1, Min(len, Len(reader.source))),
          reader |-> [reader EXCEPT
                          !.inner_done_first = TRUE,
                          !.source = SubSeq(@, Min(len, Len(@)) + 1, Len(@))]]

\* Chain::read of the whole reader.
chain_read(reader, len) ==
    LET first == IF reader.outer_done_first
                 THEN [bytes |-> <<>>, reader |-> reader]
                 ELSE inner_read(reader, len)
    IN  IF first.bytes # <<>> THEN first
        ELSE [bytes |-> Zeros(Min(len, first.reader.right_padding)),
              reader |-> [first.reader EXCEPT
                              !.outer_done_first = TRUE,
                              !.right_padding = @ - Min(len, @)]]

\* get_aligned_source with the alignment taken at offset 0, not after pieces.
get_aligned_source_at_zero(source, ps, piece_bytes) ==
    LET piece_alignment == get_piece_alignment(Zero, piece_bytes)
    IN  IF piece_alignment.outcome # "returned"
        THEN [outcome |-> piece_alignment.outcome]
        ELSE [outcome |-> "returned",
              expected_num_bytes_written |->
                  UnpaddedAdd(UnpaddedAdd(piece_alignment.left_bytes, piece_bytes),
                              piece_alignment.right_bytes),
              reader |-> with_alignment(source, piece_alignment)]

get_aligned_source(source, ps, piece_bytes) ==
    LET written_bytes == sum_piece_bytes_with_alignment(ps)
        piece_alignment == get_piece_alignment(written_bytes.value, piece_bytes)
    IN  IF written_bytes.outcome # "returned"
        THEN [outcome |-> written_bytes.outcome]
        ELSE IF piece_alignment.outcome # "returned"
        THEN [outcome |-> piece_alignment.outcome]
        ELSE [outcome |-> "returned",
              expected_num_bytes_written |->
                  UnpaddedAdd(UnpaddedAdd(piece_alignment.left_bytes, piece_bytes),
                              piece_alignment.right_bytes),
              reader |-> with_alignment(source, piece_alignment)]

----------------------------------------------------------------------------
(* Calls of get_piece_alignment on its own *)

NoCall == [op |-> "none"]

\* 127 * 2^57, the largest value of the form 127 * 2^k a u64 holds.
LargestQuantum == TimesPow2(minimum_piece_bytes, 57)

U64Max == <<65535, 65535, 65535, 65535, 0>>

\* The bytes_in_sector / bytes_in_piece columns of test_get_piece_alignment,
\* values around the quanta, and values up to u64::MAX.
WrittenSamples ==
    {Wide(n) : n \in {0, 1, 100, 126, 127, 200, 254, 300, 508, 1016}}
        \cup {TimesPow2(Wide(1), 32), WAdd(TimesPow2(Wide(1), 40), Wide(5)),
              LargestQuantum, WSub(U64Max, Wide(126)), U64Max}

PieceSamples ==
    {Wide(n) : n \in {0, 1, 100, 126, 127, 128, 200, 254, 255, 300, 508, 509, 1016}}
        \cup {TimesPow2(Wide(1), 32), TimesPow2(minimum_piece_bytes, 30),
              WAdd(TimesPow2(minimum_piece_bytes, 30), Wide(1)),
              TimesPow2(Wide(1), 63), WSub(LargestQuantum, Wide(1)), LargestQuantum,
              WAdd(LargestQuantum, Wide(1)), U64Max}

\* The arguments are drawn when the call is made; the step is its evaluation.
InitAlign ==
    /\ overflow_checks \in BOOLEAN
    /\ \E written_bytes \in WrittenSamples, piece_bytes \in PieceSamples :
           call = [op |-> "calling",
                   written_bytes |-> written_bytes,
                   piece_bytes |-> piece_bytes]
    /\ pieces = <<>>
    /\ start_call = NoCall
    /\ aligned = NoCall
    /\ sector = <<>>
    /\ sources = <<>>

GetPieceAlignment ==
    /\ call.op = "calling"
    /\ call' = [op |-> "get_piece_alignment",
                written_bytes |-> call.written_bytes,
                piece_bytes |-> call.piece_bytes,
                result |-> get_piece_alignment(call.written_bytes, call.piece_bytes)]
    /\ UNCHANGED <<overflow_checks, pieces, start_call, aligned, sector, sources>>

NextAlign == GetPieceAlignment

SpecAlign == InitAlign /\ [][NextAlign]_vars

----------------------------------------------------------------------------
(* The quantum of the specification, stated without the loop *)

\* 127 * 2^k; already 127 * 2^58 exceeds every u64.
QuantumForm(k) == TimesPow2(Wide(127), k)

\* The smallest value of the form 127 * 2^k (k >= 0) that is
\* >= max(127, piece_bytes): the form of the least such k.
Quantum(piece_bytes) ==
    LET ks == {k \in 0 .. 58 : WLe(WMax(Wide(127), piece_bytes), QuantumForm(k))}
    IN  QuantumForm(CHOOSE k \in ks : \A j \in ks : k <= j)

Returned == call.op = "get_piece_alignment" /\ call.result.outcome = "returned"

----------------------------------------------------------------------------
(* A caller that pushes pieces and asks for start bytes *)

MaxPieces == 3

\* Piece sizes within a sector: the sizes of test_get_piece_start_byte, the
\* empty piece, and a size whose quantum is 508.
PieceSizes == {Wide(n) : n \in {0, 31, 32, 33, 300}}

Keys == <<"a", "b", "c", "d", "e", "f">>
AbsentKey == "z"

\* Nothing in pieces.rs keeps the keys of a Vec<PieceMetadata> distinct: a
\* pushed piece has a key not used yet, or the key of the first piece again.
PushKeys == {Keys[Len(pieces) + 1]} \cup {pieces[i].piece_key : i \in {1} \cap DOMAIN pieces}

\* A target is an entry of pieces, or a piece given by the caller whose key is
\* absent from pieces or is that of the first entry.
Targets ==
    {pieces[i] : i \in DOMAIN pieces}
        \cup {PieceMetadata(k, n) : k \in {AbsentKey, Keys[1]}, n \in {Wide(0), Wide(300)}}

InitPieces ==
    /\ overflow_checks \in BOOLEAN
    /\ call = NoCall
    /\ pieces = <<>>
    /\ start_call = NoCall
    /\ aligned = NoCall
    /\ sector = <<>>
    /\ sources = <<>>

Push(piece) ==
    /\ Len(pieces) < MaxPieces
    /\ pieces' = Append(pieces, piece)
    /\ start_call' = NoCall
    /\ UNCHANGED <<overflow_checks, call, aligned, sector, sources>>

GetPieceStartByte(piece) ==
    /\ start_call = NoCall
    /\ start_call' = [op |-> "get_piece_start_byte",
                      piece |-> piece,
                      result |-> get_piece_start_byte(pieces, piece)]
    /\ UNCHANGED <<overflow_checks, call, pieces, aligned, sector, sources>>

NextPieces ==
    \/ \E k \in PushKeys, n \in PieceSizes : Push(PieceMetadata(k, n))
    \/ \E piece \in Targets : GetPieceStartByte(piece)

SpecPieces == InitPieces /\ [][NextPieces]_vars

----------------------------------------------------------------------------
(* Properties of get_piece_alignment, under SpecAlign *)

Q == Quantum(call.piece_bytes)

\* C1: the left_bytes a call returns brings written_bytes to a multiple of
\* the quantum: (written_bytes + left_bytes) mod quantum = 0.
C1_LeftBytesAlign ==
    Returned => WMod(WAdd(call.written_bytes, call.result.left_bytes), Q) = Zero

C1_Witness ==
    /\ Returned
    /\ call.written_bytes = Wide(127)
    /\ call.piece_bytes = Wide(508)
    /\ call.result.left_bytes = Wide(381)

\* C2 as stated: left_bytes + piece_bytes + right_bytes = quantum for every
\* written_bytes and piece_bytes.
C2_PaddedPieceIsQuantum ==
    Returned =>
        WAdd(WAdd(call.result.left_bytes, call.piece_bytes), call.result.right_bytes) = Q

\* C2 as amended: piece_bytes + right_bytes = quantum, and the sum with
\* left_bytes is the quantum exactly when written_bytes is a multiple of it.
C2_PieceAndRightAreQuantum ==
    Returned =>
        /\ WAdd(call.piece_bytes, call.result.right_bytes) = Q
        /\ (WAdd(WAdd(call.result.left_bytes, call.piece_bytes),
                 call.result.right_bytes) = Q)
               <=> (WMod(call.written_bytes, Q) = Zero)

C2_Witness ==
    /\ Returned
    /\ call.written_bytes = Wide(100)
    /\ call.piece_bytes = Wide(100)
    /\ call.result.left_bytes = Wide(27)
    /\ call.result.right_bytes = Wide(27)

\* The rows of test_get_piece_alignment:
\* (bytes_in_sector, bytes_in_piece, expected_left_align, expected_right_align)
TestTable ==
    {<<0, 0, 0, 127>>, <<0, 127, 0, 0>>, <<0, 254, 0, 0>>, <<0, 508, 0, 0>>,
     <<0, 1016, 0, 0>>, <<127, 127, 0, 0>>, <<127, 254, 127, 0>>,
     <<127, 508, 381, 0>>, <<100, 100, 27, 27>>, <<200, 200, 54, 54>>,
     <<300, 300, 208, 208>>}

\* C3: a call returns left_bytes = 0 when written_bytes mod Q = 0 and
\* Q - (written_bytes mod Q) otherwise, which is below Q, and right_bytes =
\* Q - piece_bytes; on the rows of the worked table it returns the row's values.
C3_ReferenceValues ==
    /\ Returned =>
           /\ call.result.left_bytes =
                  (IF WMod(call.written_bytes, Q) = Zero THEN Zero
                   ELSE WSub(Q, WMod(call.written_bytes, Q)))
           /\ WLt(call.result.left_bytes, Q)
           /\ call.result.right_bytes = WSub(Q, call.piece_bytes)
    /\ \A row \in TestTable :
           (/\ call.op = "get_piece_alignment"
            /\ call.written_bytes = Wide(row[1])
            /\ call.piece_bytes = Wide(row[2]))
               => call.result = [outcome |-> "returned",
                                 left_bytes |-> Wide(row[3]),
                                 right_bytes |-> Wide(row[4])]

C3_Witness ==
    /\ call.op = "get_piece_alignment"
    /\ call.written_bytes = Wide(300)
    /\ call.piece_bytes = Wide(300)
    /\ call.result = [outcome |-> "returned",
                      left_bytes |-> Wide(208), right_bytes |-> Wide(208)]

\* C7: every call of get_piece_alignment returns: for no u64 arguments does
\* the doubling overflow, the subtraction underflow, or the loop run forever.
C7_AlwaysReturns ==
    call.op = "get_piece_alignment" => call.result.outcome = "returned"

----------------------------------------------------------------------------
(* Properties of the offsets, under SpecPieces *)

DistinctKeys ==
    \A i, j \in DOMAIN pieces : pieces[i].piece_key = pieces[j].piece_key => i = j

\* sum_piece_bytes_with_alignment(pieces[0..i]), i counted from 0 as in the
\* source: the pieces before pieces[i + 1].
Before(i) == sum_piece_bytes_with_alignment(SubSeq(pieces, 1, i)).value

StartByte(i) == get_piece_start_byte(pieces, pieces[i])

\* What the specification gives as the start byte of the i-th piece.
StartByteOfPrefix(i) ==
    Bytes(WAdd(Before(i - 1),
               get_piece_alignment(Before(i - 1), pieces[i].num_bytes).left_bytes))

ExamplePieces ==
    <<PieceMetadata("a", Wide(31)), PieceMetadata("b", Wide(32)),
      PieceMetadata("c", Wide(33))>>

\* For every index i the start byte of pieces[i] is the aligned sum of the
\* pieces before it plus its left padding, and start bytes do not decrease;
\* a call for an entry of pieces returned that value; the pieces of
\* test_get_piece_start_byte start at 0, 127, 254.
StartBytesFollowPrefixes ==
    /\ start_call = NoCall =>
           \A i \in DOMAIN pieces :
               /\ StartByte(i) = StartByteOfPrefix(i)
               /\ i > 1 => WLe(StartByte(i - 1).value, StartByte(i).value)
    /\ start_call.op = "get_piece_start_byte" =>
           \A i \in DOMAIN pieces :
               start_call.piece = pieces[i] => start_call.result = StartByteOfPrefix(i)
    /\ pieces = ExamplePieces =>
           \A i \in 1 .. 3 : StartByte(i) = Bytes(Wide(127 * (i - 1)))

\* C4 as stated: for any sequence of pieces.
C4_AnySequence == StartBytesFollowPrefixes

\* C4 as amended: for any sequence of pieces with pairwise distinct keys.
C4_DistinctKeys == DistinctKeys => StartBytesFollowPrefixes

C4_Witness ==
    /\ pieces = ExamplePieces
    /\ start_call.op = "get_piece_start_byte"
    /\ start_call.piece = pieces[3]
    /\ start_call.result = Bytes(Wide(254))

\* C5: the sum of no pieces is 0, and the sum of pieces ++ [p] is
\* S + left_bytes + p.num_bytes + right_bytes, with S the sum of pieces and
\* the alignment that of p.num_bytes at S.
C5_LeftFold ==
    start_call = NoCall =>
        /\ sum_piece_bytes_with_alignment(<<>>) = Bytes(Zero)
        /\ \A i \in DOMAIN pieces :
               LET S == Before(i - 1)
                   alignment == get_piece_alignment(S, pieces[i].num_bytes)
               IN  sum_piece_bytes_with_alignment(SubSeq(pieces, 1, i)) =
                       Bytes(WAdd(WAdd(WAdd(S, alignment.left_bytes),
                                       pieces[i].num_bytes),
                                  alignment.right_bytes))

\* 31 bytes, then 300: the second piece is padded by 381 bytes on the left,
\* which it would not be at offset 0.
C5_Witness ==
    /\ start_call = NoCall
    /\ Len(pieces) = 2
    /\ pieces[1].num_bytes = Wide(31)
    /\ pieces[2].num_bytes = Wide(300)
    /\ sum_piece_bytes_with_alignment(pieces) = Bytes(Wide(1016))

\* The entries of pieces strictly before the first one with the key.
BeforeFirst(piece_key) ==
    LET found == {i \in DOMAIN pieces : pieces[i].piece_key = piece_key}
    IN  IF found = {} THEN pieces
        ELSE SubSeq(pieces, 1, (CHOOSE i \in found : \A j \in found : i <= j) - 1)

\* C8: get_piece_start_byte(pieces, target) returns the aligned sum of the
\* entries strictly before the first one with target's key, plus the left
\* padding of target.num_bytes there; with no such entry, those are all of
\* pieces and the call still returns.
C8_PrefixBeforeFirstKey ==
    start_call.op = "get_piece_start_byte" =>
        LET S == sum_piece_bytes_with_alignment(BeforeFirst(start_call.piece.piece_key)).value
        IN  start_call.result =
                Bytes(WAdd(S, get_piece_alignment(S, start_call.piece.num_bytes).left_bytes))

C8_Witness ==
    /\ start_call.op = "get_piece_start_byte"
    /\ Len(pieces) = 2
    /\ pieces[1].num_bytes = Wide(31)
    /\ pieces[2].num_bytes = Wide(32)
    /\ start_call.piece = PieceMetadata(AbsentKey, Wide(300))
    /\ start_call.result = Bytes(Wide(508))

\* C9: with pairwise distinct keys, the start byte of every piece is a
\* multiple of the piece's quantum Q_i, the sum up to and including the piece
\* is that start byte plus Q_i, and every such sum is a multiple of 127.
C9_QuantumBoundaries ==
    (start_call = NoCall /\ DistinctKeys) =>
        \A i \in DOMAIN pieces :
            LET Qi == Quantum(pieces[i].num_bytes)
            IN  /\ StartByte(i).outcome = "returned"
                /\ WMod(StartByte(i).value, Qi) = Zero
                /\ Before(i) = WAdd(StartByte(i).value, Qi)
                /\ WMod(Before(i), Wide(127)) = Zero

C9_Witness ==
    /\ start_call = NoCall
    /\ DistinctKeys
    /\ Len(pieces) = 3
    /\ pieces[2].num_bytes = Wide(300)
    /\ StartByte(2) = Bytes(Wide(508))
    /\ sum_piece_bytes_with_alignment(pieces) = Bytes(Wide(1143))

----------------------------------------------------------------------------
(* A caller that adds pieces to a sector through get_aligned_source *)

MaxStreamPieces == 2

\* The lengths of the buffers the consumer reads into.
ReadSizes == {64, 512}

StreamSizes == {0, 1, 31, 128, 300}

\* Source bytes: none of them 0, each telling its place.
Pattern(n) == [i \in 1 .. n |-> (i % 255) + 1]

\* Nothing checks that a source holds the piece_bytes it is declared with: it
\* may hold a byte less or a byte more.
SourcesOf(n) == {Pattern(m) : m \in {n - 1, n, n + 1} \cap Nat}

InitStream ==
    /\ overflow_checks \in BOOLEAN
    /\ call = NoCall
    /\ pieces = <<>>
    /\ start_call = NoCall
    /\ aligned = NoCall
    /\ sector = <<>>
    /\ sources = <<>>

GetAlignedSource(source, piece_bytes) ==
    /\ aligned = NoCall
    /\ Len(pieces) < MaxStreamPieces
    /\ LET result == get_aligned_source(source, pieces, piece_bytes)
       IN  aligned' = [op |-> "get_aligned_source",
                       source |-> source,
                       piece_bytes |-> piece_bytes,
                       outcome |-> result.outcome,
                       expected_num_bytes_written |-> result.expected_num_bytes_written,
                       reader |-> result.reader,
                       read |-> <<>>,
                       eof |-> FALSE]
    /\ UNCHANGED <<overflow_checks, call, pieces, start_call, sector, sources>>

\* The consumer reads into a buffer of len bytes; a read of 0 bytes is the end.
Read(len) ==
    /\ aligned.op = "get_aligned_source"
    /\ ~ aligned.eof
    /\ LET got == chain_read(aligned.reader, len)
       IN  aligned' = [aligned EXCEPT
                           !.reader = got.reader,
                           !.read = @ \o got.bytes,
                           !.eof = (got.bytes = <<>>)]
    /\ UNCHANGED <<overflow_checks, call, pieces, start_call, sector, sources>>

\* The caller has read the whole stream and counted what it expected: the
\* stream goes after the bytes already written and the piece is recorded.
AddPiece(piece_key) ==
    /\ aligned.op = "get_aligned_source"
    /\ aligned.eof
    /\ Wide(Len(aligned.read)) = aligned.expected_num_bytes_written
    /\ sector' = sector \o aligned.read
    /\ pieces' = Append(pieces, PieceMetadata(piece_key, aligned.piece_bytes))
    /\ sources' = Append(sources, aligned.source)
    /\ aligned' = NoCall
    /\ UNCHANGED <<overflow_checks, call, start_call>>

\* The caller has read the whole stream and counted another number of bytes:
\* nothing is recorded.
RejectPiece ==
    /\ aligned.op = "get_aligned_source"
    /\ aligned.eof
    /\ Wide(Len(aligned.read)) # aligned.expected_num_bytes_written
    /\ aligned' = NoCall
    /\ UNCHANGED <<overflow_checks, call, pieces, start_call, sector, sources>>

NextStream ==
    \/ \E piece_bytes \in StreamSizes :
           \E source \in SourcesOf(piece_bytes) :
               GetAlignedSource(source, Wide(piece_bytes))
    \/ \E len \in ReadSizes : Read(len)
    \/ \E piece_key \in PushKeys : AddPiece(piece_key)
    \/ RejectPiece

SpecStream == InitStream /\ [][NextStream]_vars

----------------------------------------------------------------------------
(* Properties of the padded stream, under SpecStream *)

Reading == aligned.op = "get_aligned_source"

\* get_piece_alignment(sum_piece_bytes_with_alignment(pieces), piece_bytes)
\* for the piece being added.
StreamAlignment ==
    get_piece_alignment(sum_piece_bytes_with_alignment(pieces).value,
                        aligned.piece_bytes)

\* left_bytes zero bytes, the bytes of source, right_bytes zero bytes.
PaddedSource ==
    Zeros(ToNat(StreamAlignment.left_bytes)) \o aligned.source
        \o Zeros(ToNat(StreamAlignment.right_bytes))

ExpectedIsPaddedPiece ==
    /\ aligned.outcome = "returned"
    /\ aligned.expected_num_bytes_written =
           WAdd(WAdd(StreamAlignment.left_bytes, aligned.piece_bytes),
                StreamAlignment.right_bytes)

\* C6 as stated: read to its end, the reader has given expected_total_bytes =
\* left_bytes + piece_bytes + right_bytes bytes: left_bytes zeros, the bytes
\* of source, right_bytes zeros.
C6_ReadsExpectedTotal ==
    (Reading /\ aligned.eof) =>
        /\ ExpectedIsPaddedPiece
        /\ aligned.read = PaddedSource
        /\ Wide(Len(aligned.read)) = aligned.expected_num_bytes_written

\* C6 as amended: read to its end, the reader has given left_bytes zeros,
\* the bytes of source, right_bytes zeros (and before its end a prefix of
\* them); their number is expected_total_bytes exactly when source holds
\* piece_bytes bytes.
C6_ReadsPaddedSource ==
    Reading =>
        /\ ExpectedIsPaddedPiece
        /\ Len(aligned.read) <= Len(PaddedSource)
        /\ aligned.read = SubSeq(PaddedSource, 1, Len(aligned.read))
        /\ aligned.eof =>
               /\ aligned.read = PaddedSource
               /\ (Wide(Len(aligned.read)) = aligned.expected_num_bytes_written)
                      <=> (Wide(Len(aligned.source)) = aligned.piece_bytes)

\* 300 bytes after a piece of 31: 381 zeros, the source, 208 zeros.
C6_Witness ==
    /\ Reading
    /\ aligned.eof
    /\ aligned.source = Pattern(300)
    /\ Len(aligned.read) = 889
    /\ aligned.read[381] = 0
    /\ aligned.read[382] = 2
    /\ aligned.read[681] = 46
    /\ aligned.read[682] = 0

====
